---- MODULE Spec2Model ----
(***************************************************************************)
(* Model of app.py: the image -> caption -> story -> narration pipeline.   *)
(*                                                                         *)
(* Python strings are sequences of one-character strings.  None is a value *)
(* that no string equals.  Two specifications are given:                   *)
(*   SpecGen  one call of generate_story on a bounded family of inputs;    *)
(*   Spec     the Streamlit script main(), run by several sessions of one  *)
(*            process that share the working directory.                    *)
(***************************************************************************)
EXTENDS Integers, Sequences, FiniteSets, TLC

(***************************************************************************)
(* Bounds of the model.                                                    *)
(***************************************************************************)
\* largest number of words in a text returned by the generation model
MaxWords == 22

(***************************************************************************)
(* Python values and string methods.                                       *)
(***************************************************************************)
None == << "<None>" >>

\* truth value of a str-or-None: None and "" are falsy
Truthy(s) == s # None /\ s # << >>

Whitespace == { " ", "\n", "\t" }

\* s[i:] for a 1-based i
Drop(s, i) == SubSeq(s, i, Len(s))

\* seq[:n]
Take(s, n) == SubSeq(s, 1, IF Len(s) < n THEN Len(s) ELSE n)

\* whether old occurs in s at position i
MatchAt(s, old, i) ==
  i + Len(old) - 1 <= Len(s) /\ SubSeq(s, i, i + Len(old) - 1) = old

\* str.find(old), 1-based; 0 when old does not occur
Find(s, old) ==
  IF \E i \in 1 .. Len(s) : MatchAt(s, old, i)
    THEN CHOOSE i \in 1 .. Len(s) :
           MatchAt(s, old, i) /\ \A j \in 1 .. i - 1 : ~MatchAt(s, old, j)
    ELSE 0

\* str.replace(old, new) for a non-empty old: leftmost, non-overlapping
RECURSIVE Replace(_, _, _)
Replace(s, old, new) ==
  LET i == Find(s, old)
  IN IF i = 0 THEN s
     ELSE SubSeq(s, 1, i - 1) \o new \o Replace(Drop(s, i + Len(old)), old, new)

\* str.lstrip()
LStrip(s) ==
  IF \A i \in 1 .. Len(s) : s[i] \in Whitespace THEN << >>
  ELSE Drop(s, CHOOSE i \in 1 .. Len(s) :
                 s[i] \notin Whitespace /\ \A j \in 1 .. i - 1 : s[j] \in Whitespace)

\* str.rstrip()
RStrip(s) ==
  IF \A i \in 1 .. Len(s) : s[i] \in Whitespace THEN << >>
  ELSE SubSeq(s, 1, CHOOSE i \in 1 .. Len(s) :
                      s[i] \notin Whitespace
                        /\ \A j \in i + 1 .. Len(s) : s[j] \in Whitespace)

\* str.strip()
Strip(s) == RStrip(LStrip(s))

\* str.split('\n')[0]
FirstLine(s) ==
  LET i == Find(s, << "\n" >>)
  IN IF i = 0 THEN s ELSE SubSeq(s, 1, i - 1)

\* the leading run of non-whitespace characters
FirstWord(s) ==
  IF \A i \in 1 .. Len(s) : s[i] \notin Whitespace THEN s
  ELSE SubSeq(s, 1, (CHOOSE i \in 1 .. Len(s) :
                       s[i] \in Whitespace
                         /\ \A j \in 1 .. i - 1 : s[j] \notin Whitespace) - 1)

\* str.split(): the maximal runs of non-whitespace characters
RECURSIVE Split(_)
Split(s) ==
  LET t == LStrip(s)
      w == FirstWord(t)
  IN IF t = << >> THEN << >> ELSE << w >> \o Split(Drop(t, Len(w) + 1))

\* " ".join(words)
RECURSIVE Join(_)
Join(words) ==
  IF words = << >> THEN << >>
  ELSE IF Len(words) = 1 THEN words[1]
  ELSE words[1] \o << " " >> \o Join(Tail(words))

\* len(s.split())
WordCount(s) == Len(Split(s))

\* the characters str.endswith(('.', '!', '?')) accepts
Terminals == { ".", "!", "?" }

EndsWithTerminal(s) == s # << >> /\ s[Len(s)] \in Terminals

(***************************************************************************)
(* create_simple_story: the template pool and the default sentence.        *)
(***************************************************************************)
\* This moment captured pure joy. The scene unfolded naturally, revealing beauty in everyday life and creating lasting memories.
Template1 ==
  << "T", "h", "i", "s", " ", "m", "o", "m", "e", "n", "t", " ", "c", "a", "p", "t",
     "u", "r", "e", "d", " ", "p", "u", "r", "e", " ", "j", "o", "y", ".", " ", "T",
     "h", "e", " ", "s", "c", "e", "n", "e", " ", "u", "n", "f", "o", "l", "d", "e",
     "d", " ", "n", "a", "t", "u", "r", "a", "l", "l", "y", ",", " ", "r", "e", "v",
     "e", "a", "l", "i", "n", "g", " ", "b", "e", "a", "u", "t", "y", " ", "i", "n",
     " ", "e", "v", "e", "r", "y", "d", "a", "y", " ", "l", "i", "f", "e", " ", "a",
     "n", "d", " ", "c", "r", "e", "a", "t", "i", "n", "g", " ", "l", "a", "s", "t",
     "i", "n", "g", " ", "m", "e", "m", "o", "r", "i", "e", "s", "." >>

\* Something magical happened here. Every detail told its own story. The atmosphere felt warm and inviting throughout.
Template2 ==
  << "S", "o", "m", "e", "t", "h", "i", "n", "g", " ", "m", "a", "g", "i", "c", "a",
     "l", " ", "h", "a", "p", "p", "e", "n", "e", "d", " ", "h", "e", "r", "e", ".",
     " ", "E", "v", "e", "r", "y", " ", "d", "e", "t", "a", "i", "l", " ", "t", "o",
     "l", "d", " ", "i", "t", "s", " ", "o", "w", "n", " ", "s", "t", "o", "r", "y",
     ".", " ", "T", "h", "e", " ", "a", "t", "m", "o", "s", "p", "h", "e", "r", "e",
     " ", "f", "e", "l", "t", " ", "w", "a", "r", "m", " ", "a", "n", "d", " ", "i",
     "n", "v", "i", "t", "i", "n", "g", " ", "t", "h", "r", "o", "u", "g", "h", "o",
     "u", "t", "." >>

\* In this peaceful moment, everything aligned perfectly. Nature and comfort blended together, creating harmony and contentment.
Template3 ==
  << "I", "n", " ", "t", "h", "i", "s", " ", "p", "e", "a", "c", "e", "f", "u", "l",
     " ", "m", "o", "m", "e", "n", "t", ",", " ", "e", "v", "e", "r", "y", "t", "h",
     "i", "n", "g", " ", "a", "l", "i", "g", "n", "e", "d", " ", "p", "e", "r", "f",
     "e", "c", "t", "l", "y", ".", " ", "N", "a", "t", "u", "r", "e", " ", "a", "n",
     "d", " ", "c", "o", "m", "f", "o", "r", "t", " ", "b", "l", "e", "n", "d", "e",
     "d", " ", "t", "o", "g", "e", "t", "h", "e", "r", ",", " ", "c", "r", "e", "a",
     "t", "i", "n", "g", " ", "h", "a", "r", "m", "o", "n", "y", " ", "a", "n", "d",
     " ", "c", "o", "n", "t", "e", "n", "t", "m", "e", "n", "t", "." >>

\* Life's beautiful moments appear unexpectedly. This scene embodied warmth. Each element contributed to the peaceful atmosphere.
Template4 ==
  << "L", "i", "f", "e", "'", "s", " ", "b", "e", "a", "u", "t", "i", "f", "u", "l",
     " ", "m", "o", "m", "e", "n", "t", "s", " ", "a", "p", "p", "e", "a", "r", " ",
     "u", "n", "e", "x", "p", "e", "c", "t", "e", "d", "l", "y", ".", " ", "T", "h",
     "i", "s", " ", "s", "c", "e", "n", "e", " ", "e", "m", "b", "o", "d", "i", "e",
     "d", " ", "w", "a", "r", "m", "t", "h", ".", " ", "E", "a", "c", "h", " ", "e",
     "l", "e", "m", "e", "n", "t", " ", "c", "o", "n", "t", "r", "i", "b", "u", "t",
     "e", "d", " ", "t", "o", " ", "t", "h", "e", " ", "p", "e", "a", "c", "e", "f",
     "u", "l", " ", "a", "t", "m", "o", "s", "p", "h", "e", "r", "e", "." >>

\* A snapshot of happiness captured here. The setting provided comfort and joy, making everything come alive beautifully.
Template5 ==
  << "A", " ", "s", "n", "a", "p", "s", "h", "o", "t", " ", "o", "f", " ", "h", "a",
     "p", "p", "i", "n", "e", "s", "s", " ", "c", "a", "p", "t", "u", "r", "e", "d",
     " ", "h", "e", "r", "e", ".", " ", "T", "h", "e", " ", "s", "e", "t", "t", "i",
     "n", "g", " ", "p", "r", "o", "v", "i", "d", "e", "d", " ", "c", "o", "m", "f",
     "o", "r", "t", " ", "a", "n", "d", " ", "j", "o", "y", ",", " ", "m", "a", "k",
     "i", "n", "g", " ", "e", "v", "e", "r", "y", "t", "h", "i", "n", "g", " ", "c",
     "o", "m", "e", " ", "a", "l", "i", "v", "e", " ", "b", "e", "a", "u", "t", "i",
     "f", "u", "l", "l", "y", "." >>

\* A beautiful moment captured in time. Everything seemed perfect in this peaceful scene worth remembering.
DefaultStory ==
  << "A", " ", "b", "e", "a", "u", "t", "i", "f", "u", "l", " ", "m", "o", "m", "e",
     "n", "t", " ", "c", "a", "p", "t", "u", "r", "e", "d", " ", "i", "n", " ", "t",
     "i", "m", "e", ".", " ", "E", "v", "e", "r", "y", "t", "h", "i", "n", "g", " ",
     "s", "e", "e", "m", "e", "d", " ", "p", "e", "r", "f", "e", "c", "t", " ", "i",
     "n", " ", "t", "h", "i", "s", " ", "p", "e", "a", "c", "e", "f", "u", "l", " ",
     "s", "c", "e", "n", "e", " ", "w", "o", "r", "t", "h", " ", "r", "e", "m", "e",
     "m", "b", "e", "r", "i", "n", "g", "." >>

PromptSuffix ==
  << ".", " ", "T", "h", "e", " ", "s", "t", "o", "r", "y", " ", "b", "e", "g", "i",
     "n", "s", ":" >>

NarrativeSep ==
  << ".", " " >>

templates == << Template1, Template2, Template3, Template4, Template5 >>

\* the outcomes of the body of create_simple_story: random.choice picks one
\* of the templates, or the body raises (pick 0) and the bare except answers
Picks == 0 .. Len(templates)

create_simple_story(pick) ==
  IF pick = 0 THEN DefaultStory ELSE templates[pick]

FallbackStories == { create_simple_story(p) : p \in Picks }

(***************************************************************************)
(* generate_story                                                          *)
(***************************************************************************)
\* f"{scenario}. The story begins:"
Prompt(scenario) == scenario \o PromptSuffix

\* the threshold of "if len(story) < 10"
MinStoryLen == 10

\* the slice bound of "story.split()[:20]"
MaxStoryWords == 20

\* full_text.replace(prompt, "").strip()
ExtractStory(full_text, prompt) == Strip(Replace(full_text, prompt, << >>))

\* story.split('\n')[0]; story.replace('  ', ' '); story.strip()
CleanStory(story) == Strip(Replace(FirstLine(story), << " ", " " >>, << " " >>))

\* the slice keeps one word too many
TruncateWordsOffByOne(story) == Join(Take(Split(story), MaxStoryWords + 1))

\* " ".join(story.split()[:20])
TruncateWords(story) == Join(Take(Split(story), MaxStoryWords))

\* the full stop is appended to every non-empty story
EnsureEndingAlways(story) ==
  IF story # << >> THEN story \o << "." >> ELSE story

\* if story and not story.endswith(('.', '!', '?')): story += '.'
EnsureEnding(story) ==
  IF story # << >> /\ ~EndsWithTerminal(story) THEN story \o << "." >> ELSE story

\* what the story pipeline can do: raise while loading the model, raise in
\* the call, return a result whose [0]['generated_text'] raises, or return text
GenOutcomes == { "load_raises", "call_raises", "bad_result", "ok" }

\* the except branch warns and raises again
HandleModelErrorReraise(pick) ==
  [ret |-> None, raised |-> TRUE, warned |-> TRUE, path |-> "except"]

\* the except branch warns and returns None
HandleModelErrorNoFallback(pick) ==
  [ret |-> None, raised |-> FALSE, warned |-> TRUE, path |-> "except"]

\* the except branch: st.warning and the fallback
HandleModelError(pick) ==
  [ret |-> create_simple_story(pick), raised |-> FALSE, warned |-> TRUE,
   path |-> "except"]

\* the try body once the model has returned full_text
PostProcess(scenario, full_text, pick) ==
  LET cleaned == CleanStory(ExtractStory(full_text, Prompt(scenario)))
      short   == Len(cleaned) < MinStoryLen
      story   == EnsureEnding(IF short THEN create_simple_story(pick)
                                       ELSE TruncateWords(cleaned))
  IN [ret |-> IF story # << >> THEN story ELSE create_simple_story(pick),
      raised |-> FALSE, warned |-> FALSE,
      path |-> IF short THEN "short" ELSE "model"]

\* generate_story(scenario), given the outcome of the model, the text it
\* returns and the choice create_simple_story makes.  ret is the returned
\* value, raised whether an exception leaves the function, warned whether
\* st.warning was called.
generate_story(scenario, outcome, full_text, pick) ==
  IF ~Truthy(scenario)
    THEN [ret |-> None, raised |-> FALSE, warned |-> FALSE, path |-> "null"]
  ELSE IF outcome # "ok" THEN HandleModelError(pick)
  ELSE PostProcess(scenario, full_text, pick)

(***************************************************************************)
(* Inputs of generate_story                                                *)
(***************************************************************************)
\* n copies of the character c
Rep(c, n) == [i \in 1 .. n |-> c]

\* n words of wl letters; sep between them, a newline after word brk
RECURSIVE Body(_, _, _, _, _)
Body(i, n, wl, sep, brk) ==
  IF i > n THEN << >>
  ELSE Rep("w", wl)
       \o (IF i = n THEN << >> ELSE IF i = brk THEN << "\n" >> ELSE sep)
       \o Body(i + 1, n, wl, sep, brk)

Scenarios == { << "a", " ", "d", "o", "g" >>, << "c", "a", "t" >> }

WordLens == { 1, 3, 10 }
Leads == { << >>, << " " >>, << "\n" >> }
Seps == { << " " >>, << " ", " ", " " >> }
Breaks == { 0, 2 }
Tails == { << >>, << "." >>, << "!", " " >>, << "?", "\n", "x" >> }

\* the texts the generation model returns for a scenario: with or without
\* the prompt echoed in front, then a continuation
ModelTexts(scenario) ==
  { pre \o lead \o Body(1, n, wl, sep, brk) \o tail :
      pre \in { << >>, Prompt(scenario) }, lead \in Leads, n \in 0 .. MaxWords,
      wl \in WordLens, sep \in Seps, brk \in Breaks, tail \in Tails }

(***************************************************************************)
(* The working directory, the captioner and the narrator                   *)
(***************************************************************************)
\* the Streamlit sessions whose script runs share the process
Sessions == { "A", "B" }

\* names of uploaded files (the uploader accepts jpg, jpeg and png)
ImageNames == { "cat.png", "dog.jpg" }

\* the output_file main passes to text2speech_gtts, and the path it checks
AudioFile == "audio.mp3"

Paths == ImageNames \cup { AudioFile }

Absent == [kind |-> "absent"]
ImageBytes(s) == [kind |-> "image", by |-> s]
AudioBytes(message) == [kind |-> "audio", text |-> message]
\* a file opened for writing whose synthesis did not complete
PartialBytes == [kind |-> "partial"]

\* captions the image-to-text model returns when it returns
Captions == { << >>, << "a", " ", "d", "o", "g" >>, << "c", "a", "t" >> }

\* the outcome of the captioning pipeline that is an exception
Raises == << "<raises>" >>

\* the except branch returns "" in place of None
img2textEmptyOnError(files, image_path, out) ==
  IF files[image_path] = Absent \/ out = Raises
    THEN [ret |-> << >>, raised |-> TRUE, msgs |-> { "caption_error" }]
    ELSE [ret |-> out, raised |-> FALSE, msgs |-> { }]

\* img2text(image_path): the model raises (it always does when the file is
\* missing) or returns a caption; an exception yields None after st.error
img2text(files, image_path, out) ==
  IF files[image_path] = Absent \/ out = Raises
    THEN [ret |-> None, raised |-> TRUE, msgs |-> { "caption_error" }]
    ELSE [ret |-> out, raised |-> FALSE, msgs |-> { }]

\* what gTTS can do: the import fails, gTTS(...)/save raise before the file
\* is opened, save raises after opening it, or save completes
TtsOutcomes(installed) ==
  IF installed THEN { "ok", "raises_before_open", "raises_after_open" }
  ELSE { "import_error" }

\* gTTS is given the output file name as its text
text2speech_gttsWrongText(files, message, output_file, out) ==
  IF Truthy(message) /\ out = "ok"
    THEN [ret |-> TRUE,
          files |-> [files EXCEPT ![output_file] = AudioBytes(<< output_file >>)],
          msgs |-> { }]
    ELSE [ret |-> FALSE, files |-> files, msgs |-> { "tts_error" }]

\* text2speech_gtts(message, output_file)
text2speech_gtts(files, message, output_file, out) ==
  IF ~Truthy(message) THEN [ret |-> FALSE, files |-> files, msgs |-> { }]
  ELSE IF out = "ok"
    THEN [ret |-> TRUE,
          files |-> [files EXCEPT ![output_file] = AudioBytes(message)],
          msgs |-> { }]
  ELSE IF out = "import_error"
    THEN [ret |-> FALSE, files |-> files, msgs |-> { "gtts_not_installed" }]
  ELSE IF out = "raises_after_open"
    THEN [ret |-> FALSE,
          files |-> [files EXCEPT ![output_file] = PartialBytes],
          msgs |-> { "tts_error" }]
  ELSE [ret |-> FALSE, files |-> files, msgs |-> { "tts_error" }]

\* the narrative leaves the scenario out
FullNarrativeStoryOnly(scen, stry) == stry

\* f"{scenario}. {story}", as displayed and as narrated
FullNarrative(scen, stry) == scen \o NarrativeSep \o stry

\* only the existence of the file is tested
AudioAvailableIfExists(ok, files) == files[AudioFile] # Absent

\* "if success and os.path.exists(audio_file)"
AudioAvailable(ok, files) == ok /\ files[AudioFile] # Absent

\* the removal reports success and leaves the file
os_removeNoop(files, path, fails) ==
  [files |-> files, raised |-> files[path] = Absent \/ fails]

\* os.remove(path): raises when the file is missing or cannot be removed
os_remove(files, path, fails) ==
  IF files[path] = Absent \/ fails
    THEN [files |-> files, raised |-> TRUE]
    ELSE [files |-> [files EXCEPT ![path] = Absent], raised |-> FALSE]

\* the texts the generation model returns in the pipeline: the prompt alone,
\* or the prompt and a continuation
Continuation ==
  << " ", "i", "t", " ", "r", "a", "n", " ", "f", "a", "r", " ", "a", "w", "a", "y" >>

PipelineTexts(scen) == { Prompt(scen), Prompt(scen) \o Continuation }

\* the choices of create_simple_story explored in the pipeline
PipelinePicks == { 0, 1, 2 }

(***************************************************************************)
(* State                                                                   *)
(***************************************************************************)
VARIABLES
  gpc,        \* SpecGen: "called" before the call, "returned" after, else "off"
  gScenario,  \* SpecGen: the argument of generate_story
  gOutcome,   \* SpecGen: what the story pipeline does
  gText,      \* SpecGen: the text the model returns (when it returns)
  gPick,      \* SpecGen: the choice made by create_simple_story
  gResult,    \* SpecGen: the result of the call
  fs,         \* the working directory: path -> contents
  installed,  \* whether "from gtts import gTTS" succeeds in this process
  pc,         \* per session: where its script run of main() stands
  fname,      \* per session: uploaded_file.name
  scenario,   \* per session: the local scenario of main
  story,      \* per session: the local story of main
  gen,        \* per session: how generate_story answered (its path)
  shown,      \* per session: the narrative written in the story expander
  narrCalls,  \* per session: the calls of text2speech_gtts in this run
  ttsOut,     \* per session: what gTTS did in this run
  success,    \* per session: the local success of main
  played,     \* per session: the bytes st.audio read
  download,   \* per session: the bytes handed to st.download_button
  ui,         \* per session: the elements the run has put on the page
  capRaised,  \* per session: whether the captioning model raised in this run
  rmOutcome   \* per session: what os.remove did in this run

gvars == << gpc, gScenario, gOutcome, gText, gPick, gResult >>

runvars == << scenario, story, gen, shown, narrCalls, ttsOut, success, played,
              download, ui, capRaised, rmOutcome >>

mvars == << fs, installed, pc, fname, runvars >>

vars == << gvars, mvars >>

NoResult == [ret |-> None, raised |-> FALSE, warned |-> FALSE, path |-> "none"]

(***************************************************************************)
(* SpecGen: one call of generate_story                                     *)
(***************************************************************************)
\* the pipeline is not running
MainOff ==
  /\ fs = [p \in Paths |-> Absent]
  /\ installed = TRUE
  /\ pc = [s \in Sessions |-> "off"]
  /\ fname = [s \in Sessions |-> "cat.png"]
  /\ scenario = [s \in Sessions |-> None]
  /\ story = [s \in Sessions |-> None]
  /\ gen = [s \in Sessions |-> "none"]
  /\ shown = [s \in Sessions |-> None]
  /\ narrCalls = [s \in Sessions |-> << >>]
  /\ ttsOut = [s \in Sessions |-> "none"]
  /\ success = [s \in Sessions |-> FALSE]
  /\ played = [s \in Sessions |-> Absent]
  /\ download = [s \in Sessions |-> Absent]
  /\ ui = [s \in Sessions |-> { }]
  /\ capRaised = [s \in Sessions |-> FALSE]
  /\ rmOutcome = [s \in Sessions |-> "none"]

GenInit ==
  /\ gpc = "called"
  /\ gScenario \in Scenarios \cup { << >>, None }
  /\ gOutcome \in GenOutcomes
  /\ gText \in IF gOutcome = "ok" /\ Truthy(gScenario)
                 THEN ModelTexts(gScenario) ELSE { << >> }
  /\ gPick = 0
  /\ gResult = NoResult
  /\ MainOff

\* generate_story runs to its return (or to the exception it lets out)
GenCall ==
  /\ gpc = "called"
  /\ \E pick \in Picks :
       /\ gPick' = pick
       /\ gResult' = generate_story(gScenario, gOutcome, gText, pick)
  /\ gpc' = "returned"
  /\ UNCHANGED << gScenario, gOutcome, gText, mvars >>

GenNext == GenCall

SpecGen == GenInit /\ [][GenNext]_vars

(***************************************************************************)
(* Spec: the sessions' runs of main()                                      *)
(***************************************************************************)
Init ==
  /\ gpc = "off"
  /\ gScenario = None
  /\ gOutcome = "ok"
  /\ gText = << >>
  /\ gPick = 0
  /\ gResult = NoResult
  /\ fs = [p \in Paths |-> Absent]
  /\ installed \in BOOLEAN
  /\ pc = [s \in Sessions |-> "idle"]
  /\ fname = [s \in Sessions |-> "cat.png"]
  /\ scenario = [s \in Sessions |-> None]
  /\ story = [s \in Sessions |-> None]
  /\ gen = [s \in Sessions |-> "none"]
  /\ shown = [s \in Sessions |-> None]
  /\ narrCalls = [s \in Sessions |-> << >>]
  /\ ttsOut = [s \in Sessions |-> "none"]
  /\ success = [s \in Sessions |-> FALSE]
  /\ played = [s \in Sessions |-> Absent]
  /\ download = [s \in Sessions |-> Absent]
  /\ ui = [s \in Sessions |-> { }]
  /\ capRaised = [s \in Sessions |-> FALSE]
  /\ rmOutcome = [s \in Sessions |-> "none"]

\* the user picks a file: the script runs with the button not clicked and
\* writes the upload under its own name
Upload(s) ==
  /\ pc[s] = "idle"
  /\ \E n \in ImageNames :
       /\ fname' = [fname EXCEPT ![s] = n]
       /\ fs' = [fs EXCEPT ![n] = ImageBytes(s)]
  /\ pc' = [pc EXCEPT ![s] = "ready"]
  /\ UNCHANGED << gvars, installed, runvars >>

\* the user clicks the button: the script writes the upload and enters
\* img2text
Click(s) ==
  /\ pc[s] = "ready"
  /\ fs' = [fs EXCEPT ![fname[s]] = ImageBytes(s)]
  /\ pc' = [pc EXCEPT ![s] = "caption"]
  /\ UNCHANGED << gvars, installed, fname, runvars >>

\* img2text returns; main shows the scenario or the analysis error
Img2Text(s) ==
  /\ pc[s] = "caption"
  /\ \E out \in Captions \cup { Raises } :
       LET r == img2text(fs, fname[s], out)
       IN /\ scenario' = [scenario EXCEPT ![s] = r.ret]
          /\ capRaised' = [capRaised EXCEPT ![s] = r.raised]
          /\ IF Truthy(r.ret)
               THEN /\ ui' = [ui EXCEPT ![s] = @ \cup r.msgs \cup { "scenario_info" }]
                    /\ pc' = [pc EXCEPT ![s] = "story"]
               ELSE /\ ui' = [ui EXCEPT ![s] = @ \cup r.msgs \cup { "analyze_failed" }]
                    /\ pc' = [pc EXCEPT ![s] = "cleanup"]
  /\ UNCHANGED << gvars, fs, installed, fname, story, gen, shown, narrCalls,
                  ttsOut, success, played, download, rmOutcome >>

\* generate_story returns; main shows the story and its statistics, or the
\* "had issues" messages when the story is falsy
GenStory(s) ==
  /\ pc[s] = "story"
  /\ \E out \in GenOutcomes, text \in PipelineTexts(scenario[s]),
        pick \in PipelinePicks :
       LET r == generate_story(scenario[s], out, text, pick)
           w == IF r.warned THEN { "model_warning" } ELSE { }
       IN /\ gen' = [gen EXCEPT ![s] = r.path]
          /\ IF r.raised
               THEN /\ pc' = [pc EXCEPT ![s] = "crashed"]
                    /\ ui' = [ui EXCEPT ![s] = @ \cup w \cup { "exception" }]
                    /\ UNCHANGED << story, shown >>
             ELSE IF Truthy(r.ret)
               THEN /\ story' = [story EXCEPT ![s] = r.ret]
                    /\ shown' = [shown EXCEPT ![s] = FullNarrative(scenario[s], r.ret)]
                    /\ ui' = [ui EXCEPT ![s] =
                                @ \cup w \cup { "story_success", "story_expander" }]
                    /\ pc' = [pc EXCEPT ![s] = "narrate"]
               ELSE /\ story' = [story EXCEPT ![s] = r.ret]
                    /\ ui' = [ui EXCEPT ![s] = @ \cup w \cup { "story_issues" }]
                    /\ pc' = [pc EXCEPT ![s] = "cleanup"]
                    /\ UNCHANGED shown
  /\ UNCHANGED << gvars, fs, installed, fname, scenario, narrCalls, ttsOut,
                  success, played, download, capRaised, rmOutcome >>

\* text2speech_gtts(full_narrative, "audio.mp3") returns
Narrate(s) ==
  /\ pc[s] = "narrate"
  /\ \E out \in TtsOutcomes(installed) :
       LET message == FullNarrative(scenario[s], story[s])
           r == text2speech_gtts(fs, message, AudioFile, out)
       IN /\ narrCalls' = [narrCalls EXCEPT ![s] =
                             Append(@, [message |-> message, file |-> AudioFile])]
          /\ ttsOut' = [ttsOut EXCEPT ![s] = out]
          /\ fs' = r.files
          /\ success' = [success EXCEPT ![s] = r.ret]
          /\ ui' = [ui EXCEPT ![s] = @ \cup r.msgs]
  /\ pc' = [pc EXCEPT ![s] = "present"]
  /\ UNCHANGED << gvars, installed, fname, scenario, story, gen, shown, played,
                  download, capRaised, rmOutcome >>

\* the test of success and of the file; st.audio reads the file, or the
\* failure message and the troubleshooting expander are shown
Present(s) ==
  /\ pc[s] = "present"
  /\ IF AudioAvailable(success[s], fs)
       THEN /\ played' = [played EXCEPT ![s] = fs[AudioFile]]
            /\ ui' = [ui EXCEPT ![s] = @ \cup { "audio_success", "audio_player" }]
            /\ pc' = [pc EXCEPT ![s] = "download"]
       ELSE /\ ui' = [ui EXCEPT ![s] = @ \cup { "audio_failed", "troubleshooting" }]
            /\ pc' = [pc EXCEPT ![s] = "cleanup"]
            /\ UNCHANGED played
  /\ UNCHANGED << gvars, fs, installed, fname, scenario, story, gen, shown,
                  narrCalls, ttsOut, success, download, capRaised, rmOutcome >>

\* open(audio_file, "rb") and st.download_button
Download(s) ==
  /\ pc[s] = "download"
  /\ download' = [download EXCEPT ![s] = fs[AudioFile]]
  /\ ui' = [ui EXCEPT ![s] = @ \cup { "download_button" }]
  /\ pc' = [pc EXCEPT ![s] = "cleanup"]
  /\ UNCHANGED << gvars, fs, installed, fname, scenario, story, gen, shown,
                  narrCalls, ttsOut, success, played, capRaised, rmOutcome >>

\* try: os.remove(uploaded_file.name) / except: pass; the run ends
Cleanup(s) ==
  /\ pc[s] = "cleanup"
  /\ \E fails \in BOOLEAN :
       LET r == os_remove(fs, fname[s], fails)
       IN /\ fs' = r.files
          /\ rmOutcome' = [rmOutcome EXCEPT ![s] = IF r.raised THEN "raised" ELSE "removed"]
  /\ pc' = [pc EXCEPT ![s] = "done"]
  /\ UNCHANGED << gvars, installed, fname, scenario, story, gen, shown,
                  narrCalls, ttsOut, success, played, download, ui, capRaised >>

Next ==
  \E s \in Sessions :
    \/ Upload(s)
    \/ Click(s)
    \/ Img2Text(s)
    \/ GenStory(s)
    \/ Narrate(s)
    \/ Present(s)
    \/ Download(s)
    \/ Cleanup(s)

Spec == Init /\ [][Next]_vars

(***************************************************************************)
(* Properties of generate_story and create_simple_story (SpecGen)          *)
(***************************************************************************)
Returned == gpc = "returned"

\* C1: for a non-empty scenario, whatever the model does or returns, the
\* string generate_story returns has at most 20 whitespace-separated words
\* and ends in '.', '!' or '?'.
C1_StoryBounded ==
  (Returned /\ Truthy(gScenario)) =>
     /\ gResult.ret # None
     /\ WordCount(gResult.ret) <= 20
     /\ gResult.ret # << >>
     /\ gResult.ret[Len(gResult.ret)] \in { ".", "!", "?" }

\* a continuation of more than 20 words came back cut to 20 words
C1_Witness ==
  /\ Returned
  /\ gResult.path = "model"
  /\ WordCount(Replace(gText, gScenario \o PromptSuffix, << >>)) > 20
  /\ WordCount(gResult.ret) = 20

\* C2: when loading the story model, calling it or reading its result
\* raises, no exception leaves generate_story and a non-null string is
\* returned.
C2_NeverRaises ==
  (Returned /\ Truthy(gScenario) /\ gOutcome # "ok") =>
     /\ ~gResult.raised
     /\ gResult.ret # None
     /\ Len(gResult.ret) > 0

\* the result of the model could not be read and a story came back
C2_Witness ==
  /\ Returned
  /\ Truthy(gScenario)
  /\ gOutcome = "bad_result"
  /\ gResult.warned
  /\ gResult.ret \in FallbackStories

\* the continuation as the claim words it: prompt removed, first line, trimmed
LiteralContinuation ==
  Strip(FirstLine(Replace(gText, gScenario \o PromptSuffix, << >>)))

\* the continuation with the text trimmed before its first line is taken
TrimmedContinuation ==
  Strip(FirstLine(Strip(Replace(gText, gScenario \o PromptSuffix, << >>))))

C7_Original ==
  (Returned /\ gResult.path \in { "short", "except" } /\ gPick \in 1 .. 5) =>
     /\ WordCount(gResult.ret) >= 18
     /\ WordCount(gResult.ret) <= 20
     /\ EndsWithTerminal(gResult.ret)

(***************************************************************************)
(* Properties of the pipeline (Spec)                                       *)
(***************************************************************************)
\* the run has left img2text
PastCaption(s) == pc[s] \in { "story", "narrate", "present", "download",
                              "cleanup", "done", "crashed" }

\* the run has left text2speech_gtts
PastNarration(s) == narrCalls[s] # << >>

\* main took the branch that skips story generation and narration
Halted(s) == "analyze_failed" \in ui[s]

\* C4 as stated: img2text returns None, and main skips story generation and
\* narration, if and only if the captioning model raises.
C4_Original ==
  \A s \in Sessions :
    PastCaption(s) =>
      /\ (scenario[s] = None) <=> capRaised[s]
      /\ Halted(s) <=> capRaised[s]

\* C4 amended: img2text returns None if and only if the captioning model
\* raises; main skips story generation and narration if and only if the
\* model raises or returns the empty caption; otherwise the run goes on to
\* story generation and narration.
C4_HaltIffRaisesOrEmpty ==
  \A s \in Sessions :
    PastCaption(s) =>
      /\ (scenario[s] = None) <=> capRaised[s]
      /\ Halted(s) <=> (capRaised[s] \/ scenario[s] = << >>)
      /\ Halted(s) => (gen[s] = "none" /\ narrCalls[s] = << >>
                         /\ pc[s] \in { "cleanup", "done" })
      /\ ~Halted(s) => (pc[s] = "story" \/ gen[s] # "none")
      /\ (~Halted(s) /\ pc[s] = "done") => Len(narrCalls[s]) = 1

\* the model raised: None came back, nothing downstream ran
C4_Witness ==
  \E s \in Sessions :
    /\ pc[s] = "done"
    /\ capRaised[s]
    /\ scenario[s] = None
    /\ Halted(s)
    /\ gen[s] = "none"
    /\ narrCalls[s] = << >>

\* C5: in a run that reaches narration the narrator is called exactly once,
\* after the story, with scenario + ". " + story (the text shown) and the
\* path audio.mp3; when synthesis succeeds it returns true and the file
\* exists when main tests for it.
C5_NarratedOnce ==
  \A s \in Sessions :
    /\ Len(narrCalls[s]) <= 1
    /\ pc[s] \in { "idle", "ready", "caption", "story", "narrate" } =>
         narrCalls[s] = << >>
    /\ pc[s] \in { "present", "download" } => Len(narrCalls[s]) = 1
    /\ PastNarration(s) =>
         /\ Truthy(story[s])
         /\ narrCalls[s][1].message = scenario[s] \o << ".", " " >> \o story[s]
         /\ narrCalls[s][1].message = shown[s]
         /\ narrCalls[s][1].file = "audio.mp3"
    /\ ttsOut[s] = "ok" =>
         /\ success[s]
         /\ fs["audio.mp3"] # Absent
         /\ pc[s] # "present" => "audio_player" \in ui[s]

\* synthesis succeeded and the file was there to be played
C5_Witness ==
  \E s \in Sessions :
    /\ pc[s] = "download"
    /\ ttsOut[s] = "ok"
    /\ success[s]
    /\ played[s] = AudioBytes(narrCalls[s][1].message)

\* C6: when narration fails the run offers no audio for playback or
\* download, even if an earlier audio.mp3 exists; scenario and story stay
\* displayed, the failure message and the troubleshooting hints are shown,
\* and narration is not tried again.
C6_FailedNarration ==
  \A s \in Sessions :
    (ttsOut[s] \notin { "none", "ok" }) =>
      /\ ~success[s]
      /\ ui[s] \cap { "audio_success", "audio_player", "download_button" } = { }
      /\ played[s] = Absent
      /\ download[s] = Absent
      /\ { "scenario_info", "story_success", "story_expander" } \subseteq ui[s]
      /\ shown[s] = scenario[s] \o << ".", " " >> \o story[s]
      /\ ui[s] \cap { "gtts_not_installed", "tts_error" } # { }
      /\ pc[s] \in { "present", "cleanup", "done" }
      /\ pc[s] # "present" => { "audio_failed", "troubleshooting" } \subseteq ui[s]
      /\ Len(narrCalls[s]) = 1

\* narration failed while another run's audio.mp3 was on disk
C6_Witness ==
  \E s \in Sessions :
    /\ pc[s] = "done"
    /\ ttsOut[s] = "raises_before_open"
    /\ fs[AudioFile].kind = "audio"
    /\ "troubleshooting" \in ui[s]

\* generation failed, or its output was degenerate
Recovered(s) == gen[s] \in { "short", "except" }

\* C8 as stated: after a generation failure or a degenerate output a
\* fallback is substituted, no message about generation is shown, the story
\* is presented as generated and the run continues to narration.
C8_Original ==
  \A s \in Sessions :
    Recovered(s) =>
      /\ story[s] \in FallbackStories
      /\ "model_warning" \notin ui[s]
      /\ "story_issues" \notin ui[s]
      /\ "story_success" \in ui[s]
      /\ pc[s] \in { "narrate", "present", "download", "cleanup", "done" }
      /\ pc[s] # "narrate" => Len(narrCalls[s]) = 1

\* C8 amended: after a degenerate output no message about generation is
\* shown; after a generation failure the warning "Model error: ..." is
\* shown; in both cases a fallback is substituted, the story is presented as
\* generated and the run continues to narration.
C8_RecoveredWithWarning ==
  \A s \in Sessions :
    Recovered(s) =>
      /\ story[s] \in FallbackStories
      /\ ("model_warning" \in ui[s]) <=> (gen[s] = "except")
      /\ "story_issues" \notin ui[s]
      /\ "story_success" \in ui[s]
      /\ pc[s] \in { "narrate", "present", "download", "cleanup", "done" }
      /\ pc[s] # "narrate" => Len(narrCalls[s]) = 1

\* one run recovered from an exception, with the warning, and was narrated
C8_Witness ==
  \E s \in Sessions :
    /\ gen[s] = "except"
    /\ "model_warning" \in ui[s]
    /\ "story_success" \in ui[s]
    /\ pc[s] = "done"
    /\ Len(narrCalls[s]) = 1

\* the narrations the runs of the process have completed
Narrations ==
  { AudioBytes(narrCalls[t][1].message) : t \in { u \in Sessions : ttsOut[u] = "ok" } }

\* C9: requests are not isolated on audio.mp3.  The audio a run plays or
\* offers for download is the narration of some successful run of the
\* process, not necessarily its own: run B can overwrite the file between
\* run A's narration and A's reads (C9_Witness).
C9_AudioOfSomeRun ==
  \A s \in Sessions :
    /\ played[s].kind = "audio" => played[s] \in Narrations
    /\ download[s].kind = "audio" => download[s] \in Narrations
    /\ played[s] # Absent => success[s]

\* A narrated, B overwrote audio.mp3, A played and offered B's narration
C9_Witness ==
  /\ pc["A"] \in { "cleanup", "done" }
  /\ ttsOut["A"] = "ok"
  /\ ttsOut["B"] = "ok"
  /\ narrCalls["A"][1].message # narrCalls["B"][1].message
  /\ played["A"] = AudioBytes(narrCalls["B"][1].message)
  /\ download["A"] = AudioBytes(narrCalls["B"][1].message)

\* the step that ends the processing of s
Ends(s) == pc[s] = "cleanup" /\ pc'[s] = "done"

\* C10 as stated: on every path the uploaded image no longer exists when
\* processing ends, the deletion comes after the captioner has returned and
\* a failed deletion shows nothing.
C10_Original ==
  [][\A s \in Sessions :
       Ends(s) =>
         /\ fs'[fname[s]] = Absent
         /\ capRaised[s] \/ scenario[s] # None
         /\ ui'[s] = ui[s]]_vars

\* C10 amended: on every path the deletion of the uploaded image is
\* attempted once, after the captioner has returned; when it succeeds the
\* file no longer exists when processing ends; when it fails the file is
\* left as it was and nothing is shown.
C10_BestEffortCleanup ==
  [][\A s \in Sessions :
       /\ Ends(s) =>
            /\ rmOutcome[s] = "none"
            /\ rmOutcome'[s] \in { "removed", "raised" }
            /\ rmOutcome'[s] = "removed" =>
                 (fs[fname[s]] # Absent /\ fs'[fname[s]] = Absent)
            /\ rmOutcome'[s] = "raised" => fs' = fs
            /\ capRaised[s] \/ scenario[s] # None
            /\ ui'[s] = ui[s]
       /\ pc'[s] = "done" => rmOutcome'[s] # "none"
       /\ pc'[s] \in { "idle", "ready", "caption" } => rmOutcome'[s] = "none"]_vars

\* a fully successful run ended with its image removed
C10_Witness ==
  \E s \in Sessions :
    /\ pc[s] = "done"
    /\ rmOutcome[s] = "removed"
    /\ fs[fname[s]] = Absent
    /\ download[s].kind = "audio"

====
